---- MODULE Spec2Model ----
(***************************************************************************)
(* A model of simlab: the Monte Carlo Trial Runner (simulate.py), the      *)
(* sweep over sample sizes (sweep.py) and the Wilson interval estimator    *)
(* (intervals.py).                                                         *)
(*                                                                         *)
(* Conventions.                                                            *)
(*  - Python's None is the record None; an exception that leaves a         *)
(*    function is the name of its class in `error` ("" when none).         *)
(*  - p-values and alpha are points of a grid: the integer p stands for    *)
(*    the float p / PGrid.  Only comparisons are made on them, and those   *)
(*    are exact on floats.                                                 *)
(*  - rejections / trials is kept as the reduced fraction <<num, den>>:    *)
(*    float division is correctly rounded, so equal fractions are equal    *)
(*    floats.                                                              *)
(*  - the floats of wilson_interval are IEEE 754 binary64 values, and      *)
(*    each operation on them is rounded as Python rounds it.               *)
(***************************************************************************)
EXTENDS Integers, Sequences, FiniteSets, TLC

VARIABLES
    \* ---- one invocation of _run_trials (simulate.py) ----
    pc,          \* "idle" | "loop" | "returned" | "raised"
    p_value_fn,  \* the per-trial callable (argument)
    trials,      \* argument
    alpha,       \* argument
    seed,        \* argument
    rng,         \* state of the random.Random the invocation built
    rejections,  \* local counter
    iter,        \* number of completed loop iterations
    calls,       \* how many times p_value_fn has been called
    log,         \* what each call of p_value_fn gave: a p-value or Raise
    result,      \* None, or the SimulationResult returned
    error,       \* "" or the class of the exception that left _run_trials
    remembered,  \* one earlier returned invocation, kept for comparison
    \* ---- one call of run_sweep_to_csv (sweep.py) ----
    sw_pc,         \* "idle" | "simulate" | "open" | "write" | "done" | "raised"
    sample_sizes,  \* argument
    seed_base,     \* argument
    sw_trials,     \* argument `trials`
    sw_alpha,      \* argument `alpha`
    degenerate,    \* the sample sizes on which the test oracle raises
    rows,          \* local list of row dicts
    seeds,         \* the seed of every Trial Runner invocation made, in order
    fieldnames,    \* local list of column names
    parent_dir,    \* whether the output file's directory exists
    file,          \* None (no file at output_path) or its contents
    sw_error,      \* "" or the class of the exception that left the sweep
    \* ---- one call of wilson_interval (intervals.py) ----
    wi_pc,       \* "idle" | "z" | "cdf_q" | "cdf_num" | "cdf_den" | "cdf_return"
                 \* | "phat" | "denom" | "center" | "half_width" | "return"
                 \* | "returned" | "raised": the statement to run next
    successes,   \* argument
    wi_trials,   \* argument `trials`
    confidence,  \* argument (a float)
    z, wi_n, phat, denom, center, half_width,  \* locals (`n` is wi_n); None before set
    cdf,         \* None, or the locals of the call of _normal_inverse_cdf
    interval,    \* None, or the ProportionInterval returned
    wi_error     \* "" or the message of the ValueError raised

runnerVars == <<pc, p_value_fn, trials, alpha, seed, rng, rejections, iter,
                calls, log, result, error, remembered>>
sweepVars == <<sw_pc, sample_sizes, seed_base, sw_trials, sw_alpha, degenerate,
               rows, seeds, fieldnames, parent_dir, file, sw_error>>
wilsonVars == <<wi_pc, successes, wi_trials, confidence, z, wi_n, phat, denom,
                center, half_width, cdf, interval, wi_error>>
vars == <<runnerVars, sweepVars, wilsonVars>>

-----------------------------------------------------------------------------
(* Bounds of the model *)

MaxTrials == 2
MaxSeed == 1
\* the sample sizes a sweep is asked for, and how many of them
MaxSize == 2
MaxSizes == 3
\* the length of the one long sweep the model runs
LongSweep == 10001
MaxSeedBase == 1
\* the largest `trials` wilson_interval is called with
MaxWilsonTrials == 3

-----------------------------------------------------------------------------
(* Values *)

None == [none |-> TRUE]

\* p-values on the grid 0, 1/PGrid, ..., 1
PGrid == 2
PValues == 0..PGrid
\* 0 < alpha < 1
Alphas == 1..(PGrid - 1)
\* what a call of the per-trial callable gives: a p-value, or it raises
Raise == -1
Outcomes == PValues \cup {Raise}

RECURSIVE GCD(_, _)
GCD(a, b) == IF b = 0 THEN a ELSE GCD(b, a % b)

Abs(x) == IF x < 0 THEN -x ELSE x

\* Python's a / b on ints, b # 0 (true division), as a reduced fraction
TrueDiv(a, b) ==
    LET g == GCD(Abs(a), Abs(b))
        s == IF b < 0 THEN -1 ELSE 1
    IN <<s * (a \div g), s * (b \div g)>>

-----------------------------------------------------------------------------
(* Natural numbers of any size.  TLC's integers are 32 bits wide and a     *)
(* float's significand has 53, so a natural number is kept as the sequence *)
(* of its digits in base 2^15, lowest first, with no leading zero digit    *)
(* (0 is the empty sequence).                                              *)

Base == 2^15

RECURSIVE BTrim(_)
BTrim(x) ==
    IF x = <<>> THEN <<>>
    ELSE IF x[Len(x)] = 0 THEN BTrim(SubSeq(x, 1, Len(x) - 1))
    ELSE x

RECURSIVE BFromInt(_)
BFromInt(n) == IF n = 0 THEN <<>> ELSE <<n % Base>> \o BFromInt(n \div Base)

Digit(x, i) == IF i <= Len(x) THEN x[i] ELSE 0

RECURSIVE BAddFrom(_, _, _, _)
BAddFrom(x, y, i, c) ==
    IF i > Len(x) /\ i > Len(y)
       THEN IF c = 0 THEN <<>> ELSE <<c>>
       ELSE LET t == Digit(x, i) + Digit(y, i) + c
            IN <<t % Base>> \o BAddFrom(x, y, i + 1, t \div Base)

BAdd(x, y) == BAddFrom(x, y, 1, 0)

\* x - y, for x >= y
RECURSIVE BSubFrom(_, _, _, _)
BSubFrom(x, y, i, b) ==
    IF i > Len(x) THEN <<>>
    ELSE LET t == Digit(x, i) - Digit(y, i) - b
         IN IF t < 0 THEN <<t + Base>> \o BSubFrom(x, y, i + 1, 1)
            ELSE <<t>> \o BSubFrom(x, y, i + 1, 0)

BSub(x, y) == BTrim(BSubFrom(x, y, 1, 0))

\* -1, 0, 1 as x < y, x = y, x > y
RECURSIVE BCmpFrom(_, _, _)
BCmpFrom(x, y, i) ==
    IF i = 0 THEN 0
    ELSE IF x[i] < y[i] THEN -1
    ELSE IF x[i] > y[i] THEN 1
    ELSE BCmpFrom(x, y, i - 1)

BCmp(x, y) ==
    IF Len(x) < Len(y) THEN -1
    ELSE IF Len(x) > Len(y) THEN 1
    ELSE BCmpFrom(x, y, Len(x))

\* x * k, for a digit k
RECURSIVE BMulDigitFrom(_, _, _, _)
BMulDigitFrom(x, k, i, c) ==
    IF i > Len(x)
       THEN IF c = 0 THEN <<>> ELSE <<c>>
       ELSE LET t == x[i] * k + c
            IN <<t % Base>> \o BMulDigitFrom(x, k, i + 1, t \div Base)

BMulDigit(x, k) == IF k = 0 THEN <<>> ELSE BMulDigitFrom(x, k, 1, 0)

\* x * Base^n
BShiftDigits(x, n) == IF x = <<>> THEN <<>> ELSE [i \in 1..n |-> 0] \o x

RECURSIVE BMulFrom(_, _, _)
BMulFrom(x, y, i) ==
    IF i > Len(x) THEN <<>>
    ELSE BAdd(BShiftDigits(BMulDigit(y, x[i]), i - 1), BMulFrom(x, y, i + 1))

BMul(x, y) == BMulFrom(x, y, 1)

\* x * 2^n
BShl(x, n) == BShiftDigits(BMulDigit(x, 2^(n % 15)), n \div 15)

\* floor(x / k) for a digit k > 0, from the highest digit down; r is the
\* remainder carried in
RECURSIVE BDivDigitFrom(_, _, _, _)
BDivDigitFrom(x, k, i, r) ==
    IF i = 0 THEN <<>>
    ELSE LET t == r * Base + x[i]
         IN BDivDigitFrom(x, k, i - 1, t % k) \o <<t \div k>>

BDivDigit(x, k) == BTrim(BDivDigitFrom(x, k, Len(x), 0))

\* floor(x / 2^n)
BShr(x, n) ==
    IF n \div 15 >= Len(x) THEN <<>>
    ELSE BDivDigit(SubSeq(x, (n \div 15) + 1, Len(x)), 2^(n % 15))

RECURSIVE BitLenInt(_)
BitLenInt(v) == IF v = 0 THEN 0 ELSE 1 + BitLenInt(v \div 2)

\* the number of bits of x
BBitLen(x) == IF x = <<>> THEN 0 ELSE 15 * (Len(x) - 1) + BitLenInt(x[Len(x)])

\* bit i of x (bit 0 is the lowest)
BTestBit(x, i) == (Digit(x, (i \div 15) + 1) \div 2^(i % 15)) % 2 = 1

\* whether the n lowest bits of x are all 0
BLowZero(x, n) == BShl(BShr(x, n), n) = x

BOdd(x) == x # <<>> /\ x[1] % 2 = 1

\* the largest digit d with d * y <= r, for r < y * Base and y with its
\* highest digit at least Base / 2: the quotient of the two highest digits of
\* r by the highest digit of y is d, d + 1 or d + 2
BQuotDigit(r, y) ==
    IF Len(r) < Len(y) THEN 0
    ELSE LET top == Digit(r, Len(y) + 1) * Base + r[Len(y)]
             est == top \div y[Len(y)]
             q0 == IF est > Base - 1 THEN Base - 1 ELSE est
         IN IF BCmp(BMulDigit(y, q0), r) <= 0 THEN q0
            ELSE IF BCmp(BMulDigit(y, q0 - 1), r) <= 0 THEN q0 - 1
            ELSE q0 - 2

\* long division by y of the digits of x from the highest down to digit i:
\* the quotient (highest digit first) and the remainder; the digits above
\* digit top are the remainder to start from
RECURSIVE BDivModTo(_, _, _, _)
BDivModTo(x, y, i, top) ==
    IF i > top THEN [q |-> <<>>, r |-> SubSeq(x, top + 1, Len(x))]
    ELSE LET prev == BDivModTo(x, y, i + 1, top)
             r2 == BTrim(<<x[i]>> \o prev.r)
             d == BQuotDigit(r2, y)
         IN [q |-> prev.q \o <<d>>, r |-> BSub(r2, BMulDigit(y, d))]

\* floor(x / y) and x mod y for y > 0; both are first shifted left until the
\* highest digit of y is at least Base / 2
BDivMod(x, y) ==
    IF BCmp(x, y) < 0 THEN [q |-> <<>>, r |-> x]
    ELSE LET sh == 15 - BitLenInt(y[Len(y)])
             X == BShl(x, sh)
             Y == BShl(y, sh)
             d == BDivModTo(X, Y, 1, Len(X) - Len(Y) + 1)
             n == Len(d.q)
         IN [q |-> BTrim([j \in 1..n |-> d.q[n + 1 - j]]),
             r |-> BShr(d.r, sh)]

\* floor(sqrt(n)) for n > 0 by Newton's iteration from a power of two that
\* is not below it, and n - floor(sqrt(n))^2
RECURSIVE BSqrtFrom(_, _)
BSqrtFrom(n, x) ==
    LET y == BShr(BAdd(x, BDivMod(n, x).q), 1)
    IN IF BCmp(y, x) >= 0 THEN x ELSE BSqrtFrom(n, y)

BSqrt(n) ==
    LET root == BSqrtFrom(n, BShl(<<1>>, (BBitLen(n) + 1) \div 2))
    IN [root |-> root, rem |-> BSub(n, BMul(root, root))]

-----------------------------------------------------------------------------
(* Python floats: IEEE 754 binary64, every operation rounded to nearest,   *)
(* ties to even.  A float is [s, m, e] and stands for (-1)^s * m * 2^e,    *)
(* with 2^52 <= m < 2^53, or m = 0 (then s = 0 and e = 0: the sign of a    *)
(* zero is not kept, -0.0 == 0.0).  Infinities, NaN and subnormal numbers  *)
(* are not modelled: no computation of the model comes near them.         *)

FZero == [s |-> 0, m |-> <<>>, e |-> 0]

\* the float nearest to (-1)^s * M * 2^E, or to a value just above it in
\* magnitude when sticky (then M must have at least 55 bits)
FRound(s, M, E, sticky) ==
    IF M = <<>> THEN FZero
    ELSE LET L == BBitLen(M)
         IN IF L <= 53
               THEN [s |-> s, m |-> BShl(M, 53 - L), e |-> E - (53 - L)]
               ELSE LET sh == L - 53
                        q == BShr(M, sh)
                        half == BTestBit(M, sh - 1)
                        rest == sticky \/ ~BLowZero(M, sh - 1)
                        up == half /\ (rest \/ BOdd(q))
                        q2 == IF up THEN BAdd(q, <<1>>) ELSE q
                    IN IF BBitLen(q2) > 53
                          THEN [s |-> s, m |-> BShr(q2, 1), e |-> E + sh + 1]
                          ELSE [s |-> s, m |-> q2, e |-> E + sh]

\* float(n) for an int n
FFromInt(n) == FRound(IF n < 0 THEN 1 ELSE 0, BFromInt(Abs(n)), 0, FALSE)

FNeg(x) == IF x.m = <<>> THEN x ELSE [x EXCEPT !.s = 1 - x.s]

\* -1, 0, 1 as |x| < |y|, |x| = |y|, |x| > |y|
FCmpAbs(x, y) ==
    IF x.m = <<>> THEN (IF y.m = <<>> THEN 0 ELSE -1)
    ELSE IF y.m = <<>> THEN 1
    ELSE IF x.e < y.e THEN -1
    ELSE IF x.e > y.e THEN 1
    ELSE BCmp(x.m, y.m)

\* -1, 0, 1 as x < y, x == y, x > y
FCmp(x, y) ==
    IF x.s # y.s THEN (IF x.s = 1 THEN -1 ELSE 1)
    ELSE IF x.s = 0 THEN FCmpAbs(x, y) ELSE -FCmpAbs(x, y)

FLt(x, y) == FCmp(x, y) < 0
FLe(x, y) == FCmp(x, y) <= 0
FEq(x, y) == FCmp(x, y) = 0

\* x + y
FAdd(x, y) ==
    IF x.m = <<>> THEN y
    ELSE IF y.m = <<>> THEN x
    ELSE LET e == IF x.e < y.e THEN x.e ELSE y.e
             X == BShl(x.m, x.e - e)
             Y == BShl(y.m, y.e - e)
         IN IF x.s = y.s THEN FRound(x.s, BAdd(X, Y), e, FALSE)
            ELSE IF BCmp(X, Y) >= 0 THEN FRound(x.s, BSub(X, Y), e, FALSE)
            ELSE FRound(y.s, BSub(Y, X), e, FALSE)

\* x - y
FSub(x, y) == FAdd(x, FNeg(y))

\* x * y
FMul(x, y) ==
    IF x.m = <<>> \/ y.m = <<>> THEN FZero
    ELSE FRound(IF x.s = y.s THEN 0 ELSE 1, BMul(x.m, y.m), x.e + y.e, FALSE)

\* x / y, for y # 0 (Python raises ZeroDivisionError for y == 0: no case)
FDiv(x, y) ==
    CASE y.m # <<>> ->
      IF x.m = <<>> THEN FZero
      ELSE LET d == BDivMod(BShl(x.m, 57), y.m)
           IN FRound(IF x.s = y.s THEN 0 ELSE 1, d.q, x.e - y.e - 57,
                     d.r # <<>>)

\* math.sqrt(x), for x >= 0
FSqrt(x) ==
    IF x.m = <<>> THEN FZero
    ELSE LET k == IF x.e % 2 = 0 THEN 58 ELSE 57
             r == BSqrt(BShl(x.m, k))
         IN FRound(0, r.root, (x.e - k) \div 2, r.rem # <<>>)

\* the natural number written in decimal as the first i groups of four
\* digits of gs, highest first
RECURSIVE BFromGroups(_, _)
BFromGroups(gs, i) ==
    IF i = 0 THEN <<>>
    ELSE BAdd(BMul(BFromGroups(gs, i - 1), BFromInt(10000)), BFromInt(gs[i]))

\* 10^k, for k <= 18
BPow10(k) == BMul(BFromInt(10^(k \div 2)), BFromInt(10^(k - (k \div 2))))

\* A decimal literal of the source, as Python reads it: the float nearest to
\* (-1)^s * N * 10^e10, N written as groups of four digits, highest first.
Dec(s, gs, e10) ==
    LET N == BFromGroups(gs, Len(gs))
    IN IF e10 >= 0 THEN FRound(s, BMul(N, BPow10(e10)), 0, FALSE)
       ELSE LET D == BPow10(-e10)
                k == 57 + BBitLen(D)
                d == BDivMod(BShl(N, k), D)
            IN FRound(s, d.q, -k, d.r # <<>>)

F0_0 == FZero
F0_5 == Dec(0, <<5>>, -1)
F1_0 == Dec(0, <<1>>, 0)
F2_0 == Dec(0, <<2>>, 0)
F4_0 == Dec(0, <<4>>, 0)

-----------------------------------------------------------------------------
(* _normal_inverse_cdf (intervals.py) *)

\* a = [-3.969683028665376e01, 2.209460984245205e02, -2.759285104469687e02,
\*      1.383577518672690e02, -3.066479806614716e01, 2.506628277459239e00]
CoefA ==
    << Dec(1, <<3969, 6830, 2866, 5376>>, -14),
       Dec(0, <<2209, 4609, 8424, 5205>>, -13),
       Dec(1, <<2759, 2851, 0446, 9687>>, -13),
       Dec(0, <<1383, 5775, 1867, 2690>>, -13),
       Dec(1, <<3066, 4798, 0661, 4716>>, -14),
       Dec(0, <<2506, 6282, 7745, 9239>>, -15) >>

\* b = [-5.447609879822406e01, 1.615858368580409e02, -1.556989798598866e02,
\*      6.680131188771972e01, -1.328068155288572e01]
CoefB ==
    << Dec(1, <<5447, 6098, 7982, 2406>>, -14),
       Dec(0, <<1615, 8583, 6858, 0409>>, -13),
       Dec(1, <<1556, 9897, 9859, 8866>>, -13),
       Dec(0, <<6680, 1311, 8877, 1972>>, -14),
       Dec(1, <<1328, 0681, 5528, 8572>>, -14) >>

\* plow = 0.02425
Plow == Dec(0, <<2425>>, -5)
\* phigh = 1.0 - plow
Phigh == FSub(F1_0, Plow)

\* (...((c[1] * r + c[2]) * r + c[3]) ... ) * r + c[Len(c)]
RECURSIVE Horner(_, _)
Horner(c, r) ==
    IF Len(c) = 1 THEN c[1]
    ELSE FAdd(FMul(Horner(SubSeq(c, 1, Len(c) - 1), r), r), c[Len(c)])

PMsg == "p must be between 0 and 1 (exclusive)."

\* if not (0.0 < p < 1.0): raise ValueError(...)
ValidP(p) == FLt(F0_0, p) /\ FLt(p, F1_0)

\* neither p < plow nor p > phigh: the central region.  The two tail
\* branches call math.log, which has no definition here: the confidence
\* levels of the model keep p in the central region.
Central(p) == ~FLt(p, Plow) /\ ~FLt(Phigh, p)

\* the locals of _normal_inverse_cdf when it is entered with p
CdfFrame(p) == [p |-> p, q |-> None, r |-> None, num |-> None, den |-> None]

-----------------------------------------------------------------------------
(* wilson_interval (intervals.py) *)

\* max(0.0, x)
Max0(x) == IF FLt(F0_0, x) THEN x ELSE F0_0
\* min(1.0, x)
Min1(x) == IF FLt(x, F1_0) THEN x ELSE F1_0

\* if trials <= 0: raise ValueError("trials must be positive.")
ValidTrials(t) == ~(t <= 0)

\* if successes < 0 or successes > trials: raise ValueError(...)
ValidSuccesses(succ, t) == ~(succ < 0 \/ succ > t)

\* a faulty variant: the bounds 0.0 and 1.0 themselves are let through
ValidConfidenceClosed(c) == ~(FLt(c, F0_0) \/ FLt(F1_0, c))

\* if confidence <= 0.0 or confidence >= 1.0: raise ValueError(...)
ValidConfidence(c) == ~(FLe(c, F0_0) \/ FLe(F1_0, c))

TrialsMsg == "trials must be positive."
SuccessesMsg == "successes must be between 0 and trials."
ConfidenceMsg == "confidence must be between 0 and 1 (exclusive)."

WilsonLocals == <<z, wi_n, phat, denom, center, half_width>>
WilsonArgs == <<successes, wi_trials, confidence>>

\* the call and the three checks of the arguments
WilsonCall(succ, t, c) ==
    /\ wi_pc \in {"idle", "returned", "raised"}
    /\ successes' = succ
    /\ wi_trials' = t
    /\ confidence' = c
    /\ z' = None /\ wi_n' = None /\ phat' = None
    /\ denom' = None /\ center' = None /\ half_width' = None
    /\ interval' = None
    /\ cdf' = None
    /\ IF ~ValidTrials(t)
          THEN wi_pc' = "raised" /\ wi_error' = TrialsMsg
          ELSE IF ~ValidSuccesses(succ, t)
          THEN wi_pc' = "raised" /\ wi_error' = SuccessesMsg
          ELSE IF ~ValidConfidence(c)
          THEN wi_pc' = "raised" /\ wi_error' = ConfidenceMsg
          ELSE wi_pc' = "z" /\ wi_error' = ""
    /\ UNCHANGED <<runnerVars, sweepVars>>

\* z = _normal_inverse_cdf(0.5 + confidence / 2.0): the call, and the check
\* of p that _normal_inverse_cdf starts with
WilsonZ ==
    /\ wi_pc = "z"
    /\ \E p \in {FAdd(F0_5, FDiv(confidence, F2_0))} :
          IF ~ValidP(p)
             THEN /\ wi_pc' = "raised"
                  /\ wi_error' = PMsg
                  /\ UNCHANGED cdf
             ELSE /\ cdf' = CdfFrame(p)
                  /\ wi_pc' = "cdf_q"
                  /\ UNCHANGED wi_error
    /\ UNCHANGED <<WilsonArgs, WilsonLocals, interval>>
    /\ UNCHANGED <<runnerVars, sweepVars>>

\* q = p - 0.5; r = q * q
CdfCentral ==
    /\ wi_pc = "cdf_q"
    /\ Central(cdf.p)
    /\ \E q \in {FSub(cdf.p, F0_5)} :
          cdf' = [cdf EXCEPT !.q = q, !.r = FMul(q, q)]
    /\ wi_pc' = "cdf_num"
    /\ UNCHANGED <<WilsonArgs, WilsonLocals, interval, wi_error>>
    /\ UNCHANGED <<runnerVars, sweepVars>>

\* num = (((((a[0] * r + a[1]) * r + a[2]) * r + a[3]) * r + a[4]) * r
\*        + a[5]) * q
CdfNum ==
    /\ wi_pc = "cdf_num"
    /\ cdf' = [cdf EXCEPT !.num = FMul(Horner(CoefA, cdf.r), cdf.q)]
    /\ wi_pc' = "cdf_den"
    /\ UNCHANGED <<WilsonArgs, WilsonLocals, interval, wi_error>>
    /\ UNCHANGED <<runnerVars, sweepVars>>

\* den = ((((b[0] * r + b[1]) * r + b[2]) * r + b[3]) * r + b[4]) * r + 1.0
CdfDen ==
    /\ wi_pc = "cdf_den"
    /\ cdf' = [cdf EXCEPT !.den = Horner(CoefB \o <<F1_0>>, cdf.r)]
    /\ wi_pc' = "cdf_return"
    /\ UNCHANGED <<WilsonArgs, WilsonLocals, interval, wi_error>>
    /\ UNCHANGED <<runnerVars, sweepVars>>

\* return num / den, and the assignment of the value to z
CdfReturn ==
    /\ wi_pc = "cdf_return"
    /\ z' = FDiv(cdf.num, cdf.den)
    /\ cdf' = None
    /\ wi_pc' = "phat"
    /\ UNCHANGED <<WilsonArgs, wi_n, phat, denom, center, half_width, interval,
                   wi_error>>
    /\ UNCHANGED <<runnerVars, sweepVars>>

\* n = float(trials); phat = successes / n
WilsonPhat ==
    /\ wi_pc = "phat"
    /\ wi_n' = FFromInt(wi_trials)
    /\ phat' = FDiv(FFromInt(successes), FFromInt(wi_trials))
    /\ wi_pc' = "denom"
    /\ UNCHANGED <<WilsonArgs, z, denom, center, half_width, interval, wi_error>>
    /\ UNCHANGED cdf
    /\ UNCHANGED <<runnerVars, sweepVars>>

\* denom = 1.0 + (z**2) / n
WilsonDenom ==
    /\ wi_pc = "denom"
    /\ denom' = FAdd(F1_0, FDiv(FMul(z, z), wi_n))
    /\ wi_pc' = "center"
    /\ UNCHANGED <<WilsonArgs, z, wi_n, phat, center, half_width, interval, wi_error>>
    /\ UNCHANGED cdf
    /\ UNCHANGED <<runnerVars, sweepVars>>

\* center = (phat + (z**2) / (2.0 * n)) / denom
WilsonCenter ==
    /\ wi_pc = "center"
    /\ center' = FDiv(FAdd(phat, FDiv(FMul(z, z), FMul(F2_0, wi_n))), denom)
    /\ wi_pc' = "half_width"
    /\ UNCHANGED <<WilsonArgs, z, wi_n, phat, denom, half_width, interval, wi_error>>
    /\ UNCHANGED cdf
    /\ UNCHANGED <<runnerVars, sweepVars>>

\* half_width = (z / denom) * math.sqrt(
\*     (phat * (1.0 - phat) / n) + ((z**2) / (4.0 * n * n)))
WilsonHalfWidth ==
    /\ wi_pc = "half_width"
    /\ half_width' =
          FMul(FDiv(z, denom),
               FSqrt(FAdd(FDiv(FMul(phat, FSub(F1_0, phat)), wi_n),
                          FDiv(FMul(z, z), FMul(FMul(F4_0, wi_n), wi_n)))))
    /\ wi_pc' = "return"
    /\ UNCHANGED <<WilsonArgs, z, wi_n, phat, denom, center, interval, wi_error>>
    /\ UNCHANGED cdf
    /\ UNCHANGED <<runnerVars, sweepVars>>

\* low = max(0.0, center - half_width); high = min(1.0, center + half_width)
\* return ProportionInterval(estimate=phat, low=low, high=high)
WilsonReturn ==
    /\ wi_pc = "return"
    /\ interval' = [estimate |-> phat,
                    low |-> Max0(FSub(center, half_width)),
                    high |-> Min1(FAdd(center, half_width))]
    /\ wi_pc' = "returned"
    /\ UNCHANGED <<WilsonArgs, WilsonLocals, wi_error>>
    /\ UNCHANGED cdf
    /\ UNCHANGED <<runnerVars, sweepVars>>

-----------------------------------------------------------------------------
(* The Deterministic Random Source.  random.Random is the standard         *)
(* library's Mersenne Twister; what the program relies on is that the      *)
(* stream is a function of the seed alone and that each draw advances the  *)
(* object's private state.  It is modelled by a generator of period        *)
(* RngPeriod: the state is the position in the stream.                     *)

RngPeriod == 3
RngStates == 0..(RngPeriod - 1)

\* a faulty variant: the invocation goes on with the generator left by the last one
RandomShared(s) == rng

\* rng = random.Random(seed)
Random(s) == s % RngPeriod

\* one draw (rng.gauss / rng.random): the state moves on
Advance(r, n) == (r + n) % RngPeriod

-----------------------------------------------------------------------------
(* The per-trial callable.  A callable draws `draws` values from the rng   *)
(* it is handed and gives the p-value the test oracle computes from them,  *)
(* or raises: `table` maps the stream position it started at to that.      *)

PValueFns == [draws : {1}, table : [RngStates -> Outcomes]]

\* the callables that never raise
TotalFns == {fn \in PValueFns : \A r \in RngStates : fn.table[r] # Raise}

\* p = p_value_fn(rng)
CallFn(fn, r) == [outcome |-> fn.table[r], rng |-> Advance(r, fn.draws)]

-----------------------------------------------------------------------------
(* _run_trials, one step at a time *)

\* a faulty variant: a p-value equal to alpha counts as a rejection
RejectsLe(p, a) == p <= a

\* if p < alpha
Rejects(p, a) == p < a

\* a faulty variant: an exception of the per-trial callable is swallowed
PropagatesNever(o) == FALSE

\* the loop has no try/except: an exception of p_value_fn leaves _run_trials
Propagates(o) == o = Raise

SameInvocation(m, fn, t, a, s) ==
    /\ m.p_value_fn = fn
    /\ m.trials = t
    /\ m.alpha = a
    /\ m.seed = s

\* The locals of an invocation, as a record
Frame ==
    [pc |-> pc, rng |-> rng, rejections |-> rejections, iter |-> iter,
     calls |-> calls, log |-> log, result |-> result, error |-> error]

\* rng = random.Random(seed); rejections = 0
Start(s) ==
    [pc |-> "loop", rng |-> Random(s), rejections |-> 0, iter |-> 0,
     calls |-> 0, log |-> <<>>, result |-> None, error |-> ""]

\* one iteration of: for _ in range(trials): p = p_value_fn(rng); if p < alpha
Body(fn, a, f) ==
    LET c == CallFn(fn, f.rng)
        g == [f EXCEPT !.rng = c.rng, !.calls = f.calls + 1,
                       !.log = Append(f.log, c.outcome)]
    IN IF Propagates(c.outcome)
          THEN [g EXCEPT !.pc = "raised", !.error = "OracleError"]
          ELSE [g EXCEPT !.rejections = IF Rejects(c.outcome, a)
                                           THEN f.rejections + 1
                                           ELSE f.rejections,
                         !.iter = f.iter + 1]

\* return SimulationResult(trials, alpha, rejection_rate=rejections / trials)
Finish(t, a, f) ==
    IF t = 0
       THEN [f EXCEPT !.pc = "raised", !.error = "ZeroDivisionError"]
       ELSE [f EXCEPT !.pc = "returned",
                      !.result = [trials |-> t, alpha |-> a,
                                  rejection_rate |-> TrueDiv(f.rejections, t)]]

\* _run_trials from its call to its return or its exception
RECURSIVE Run(_, _, _, _)
Run(fn, t, a, f) ==
    IF f.pc # "loop" THEN f
    ELSE IF f.iter < t THEN Run(fn, t, a, Body(fn, a, f))
    ELSE Finish(t, a, f)

RunTrials(fn, t, a, s) == Run(fn, t, a, Start(s))

SetFrame(f) ==
    /\ pc' = f.pc
    /\ rng' = f.rng
    /\ rejections' = f.rejections
    /\ iter' = f.iter
    /\ calls' = f.calls
    /\ log' = f.log
    /\ result' = f.result
    /\ error' = f.error

Invoke(fn, t, a, s) ==
    /\ pc \in {"idle", "returned", "raised"}
    /\ p_value_fn' = fn
    /\ trials' = t
    /\ alpha' = a
    /\ seed' = s
    /\ SetFrame(Start(s))
    /\ remembered' = IF remembered # None /\ ~SameInvocation(remembered, fn, t, a, s)
                        THEN [remembered EXCEPT !.others = TRUE]
                        ELSE remembered
    /\ UNCHANGED <<sweepVars, wilsonVars>>

LoopBody ==
    /\ pc = "loop"
    /\ iter < trials
    /\ SetFrame(Body(p_value_fn, alpha, Frame))
    /\ UNCHANGED <<p_value_fn, trials, alpha, seed, remembered>>
    /\ UNCHANGED <<sweepVars, wilsonVars>>

Return ==
    /\ pc = "loop"
    /\ ~(iter < trials)
    /\ SetFrame(Finish(trials, alpha, Frame))
    /\ UNCHANGED <<p_value_fn, trials, alpha, seed, remembered>>
    /\ UNCHANGED <<sweepVars, wilsonVars>>

\* report.py reads result.successes of a returned SimulationResult
ReadSuccesses ==
    /\ pc = "returned"
    /\ IF "successes" \in DOMAIN result
          THEN UNCHANGED <<pc, error>>
          ELSE /\ pc' = "raised"
               /\ error' = "AttributeError"
    /\ UNCHANGED <<p_value_fn, trials, alpha, seed, rng, rejections, iter,
                   calls, log, result, remembered>>
    /\ UNCHANGED <<sweepVars, wilsonVars>>

\* The observer of the determinism claim keeps one returned invocation; the
\* program has no such state.
Remember ==
    /\ pc = "returned"
    /\ remembered = None
    /\ remembered' = [p_value_fn |-> p_value_fn, trials |-> trials,
                      alpha |-> alpha, seed |-> seed,
                      rejection_rate |-> result.rejection_rate,
                      others |-> FALSE]
    /\ UNCHANGED <<pc, p_value_fn, trials, alpha, seed, rng, rejections, iter,
                   calls, log, result, error>>
    /\ UNCHANGED <<sweepVars, wilsonVars>>

-----------------------------------------------------------------------------
(* run_sweep_to_csv (sweep.py) *)

\* the six simulate_* calls of one loop iteration, in the order of the code
Cells == <<"type1_mean", "power_mean", "type1_conversion", "power_conversion",
           "type1_ratio", "power_ratio">>
NCells == Len(Cells)

\* seed=seed_base + 10_000 + i, ..., seed=seed_base + 60_000 + i
SeedOffsets == <<10000, 20000, 30000, 40000, 50000, 60000>>

SeedOf(sb, k, i) == sb + SeedOffsets[k] + i

\* The p-value the external test oracle (abtk) gives for the data a closure
\* generated: a fixed function of the cell and of the stream position.
OracleP(k, r) == (r + k) % (PGrid + 1)

\* the closure one_trial of the k-th simulate_* function: 2 * n_per_group
\* draws (group a, then group b), then the test oracle, which raises on the
\* sample sizes it cannot handle
SimulateFn(k, n, deg) ==
    [draws |-> 2 * n,
     table |-> [r \in RngStates |-> IF n \in deg THEN Raise ELSE OracleP(k, r)]]

\* the k-th simulate_* call of iteration i (0-based)
Simulate(k, i, sizes, t, a, sb, deg) ==
    RunTrials(SimulateFn(k, sizes[i + 1], deg), t, a, SeedOf(sb, k, i))

\* a faulty variant: the dict is built with alpha as its first key
RowAlphaFirst(n, a, t, rates) ==
    << <<"alpha", a>>, <<"n_per_group", n>>, <<"trials", t>> >>
    \o [k \in 1..NCells |-> <<Cells[k], rates[k]>>]

\* the row dict of one iteration: keys in insertion order
Row(n, a, t, rates) ==
    << <<"n_per_group", n>>, <<"alpha", a>>, <<"trials", t>> >>
    \o [k \in 1..NCells |-> <<Cells[k], rates[k]>>]

\* list(rows[0].keys())
Keys(r) == [c \in 1..Len(r) |-> r[c][1]]

\* r[name]
Lookup(r, name) == r[CHOOSE c \in 1..Len(r) : r[c][1] = name][2]

\* csv.DictWriter.writerow: the values of r in the order of fieldnames
WriteRow(names, r) == [c \in 1..Len(names) |-> Lookup(r, names[c])]

EmptyFile == [header |-> <<>>, lines |-> <<>>]
\* what a file left at output_path by something else holds
OldFile == [header |-> <<"old">>, lines |-> << <<0>> >>]

\* out = Path(output_path); _ensure_parent(out); rows = []
SweepCall(t, a, sizes, sb, deg) ==
    /\ sw_pc = "idle"
    /\ sample_sizes' = sizes
    /\ sw_trials' = t
    /\ sw_alpha' = a
    /\ seed_base' = sb
    /\ degenerate' = deg
    /\ parent_dir' = TRUE
    /\ rows' = <<>>
    /\ seeds' = <<>>
    /\ sw_pc' = "simulate"
    /\ UNCHANGED <<fieldnames, file, sw_error>>
    /\ UNCHANGED <<runnerVars, wilsonVars>>

\* The simulate_* calls of the whole loop, numbered 1 .. 6 * len(sample_sizes)
\* in the order the loop makes them: call c is cell CellOf(c) of iteration
\* IterOf(c) (0-based).
CellOf(c) == ((c - 1) % NCells) + 1
IterOf(c) == (c - 1) \div NCells

\* what each call gives if the loop gets to it (a tuple, built once)
LoopOutcomes(sizes, t, a, sb, deg) ==
    LET total == NCells * Len(sizes)
    IN SubSeq([c \in 1..total |->
                 Simulate(CellOf(c), IterOf(c), sizes, t, a, sb, deg)],
              1, total)

\* a faulty variant: the file is opened before the loop and each row is
\* written as soon as its six calls have returned
SweepSimulateStreaming ==
    /\ sw_pc = "simulate"
    /\ \E out \in {LoopOutcomes(sample_sizes, sw_trials, sw_alpha, seed_base,
                                degenerate)} :
       \E failed \in {{c \in 1..Len(out) : out[c].pc = "raised"}} :
       \E first \in {IF failed = {} THEN Len(out) + 1
                      ELSE CHOOSE c \in failed : \A d \in failed : c <= d} :
          LET made == IF failed = {} THEN Len(out) ELSE first
              completed == (first - 1) \div NCells
              rowOf(j) == Row(sample_sizes[j], sw_alpha, sw_trials,
                              [k \in 1..NCells |->
                                 out[(j - 1) * NCells + k].result.rejection_rate])
          IN /\ seeds' = [c \in 1..made |->
                            SeedOf(seed_base, CellOf(c), IterOf(c))]
             /\ rows' = [j \in 1..completed |-> rowOf(j)]
             /\ file' = [header |-> Keys(Row(0, sw_alpha, sw_trials,
                                             [k \in 1..NCells |-> 0])),
                         lines |-> [j \in 1..completed |->
                                      WriteRow(Keys(rowOf(j)), rowOf(j))]]
             /\ IF failed = {}
                   THEN /\ sw_pc' = "open"
                        /\ UNCHANGED sw_error
                   ELSE /\ sw_pc' = "raised"
                        /\ sw_error' = out[first].error
    /\ UNCHANGED <<sample_sizes, seed_base, sw_trials, sw_alpha, degenerate,
                   fieldnames, parent_dir>>
    /\ UNCHANGED <<runnerVars, wilsonVars>>

\* for i, n in enumerate(sample_sizes): six simulate_* calls, rows.append.
\* The loop ends at the first call that raises.
SweepSimulate ==
    /\ sw_pc = "simulate"
    /\ \E out \in {LoopOutcomes(sample_sizes, sw_trials, sw_alpha, seed_base,
                                degenerate)} :
       \E failed \in {{c \in 1..Len(out) : out[c].pc = "raised"}} :
       \E first \in {IF failed = {} THEN Len(out) + 1
                      ELSE CHOOSE c \in failed : \A d \in failed : c <= d} :
          LET made == IF failed = {} THEN Len(out) ELSE first
              completed == (first - 1) \div NCells
              rowOf(j) == Row(sample_sizes[j], sw_alpha, sw_trials,
                              [k \in 1..NCells |->
                                 out[(j - 1) * NCells + k].result.rejection_rate])
          IN /\ seeds' = [c \in 1..made |->
                            SeedOf(seed_base, CellOf(c), IterOf(c))]
             /\ rows' = [j \in 1..completed |-> rowOf(j)]
             /\ IF failed = {}
                   THEN /\ sw_pc' = "open"
                        /\ UNCHANGED sw_error
                   ELSE /\ sw_pc' = "raised"
                        /\ sw_error' = out[first].error
    /\ UNCHANGED <<sample_sizes, seed_base, sw_trials, sw_alpha, degenerate,
                   fieldnames, parent_dir, file>>
    /\ UNCHANGED <<runnerVars, wilsonVars>>

\* fieldnames = list(rows[0].keys()); with out.open("w", newline="") as f
SweepOpen ==
    /\ sw_pc = "open"
    /\ IF rows = <<>>
          THEN /\ sw_pc' = "raised"
               /\ sw_error' = "IndexError"
               /\ UNCHANGED <<fieldnames, file>>
          ELSE /\ fieldnames' = Keys(rows[1])
               /\ file' = EmptyFile
               /\ sw_pc' = "write"
               /\ UNCHANGED sw_error
    /\ UNCHANGED <<sample_sizes, seed_base, sw_trials, sw_alpha, degenerate,
                   rows, seeds, parent_dir>>
    /\ UNCHANGED <<runnerVars, wilsonVars>>

\* writer.writeheader(); for r in rows: writer.writerow(r)
SweepWrite ==
    /\ sw_pc = "write"
    /\ file' = [header |-> fieldnames,
                lines |-> [j \in 1..Len(rows) |-> WriteRow(fieldnames, rows[j])]]
    /\ sw_pc' = "done"
    /\ UNCHANGED <<sample_sizes, seed_base, sw_trials, sw_alpha, degenerate,
                   rows, seeds, fieldnames, parent_dir, sw_error>>
    /\ UNCHANGED <<runnerVars, wilsonVars>>

InitRunner ==
    /\ pc = "idle"
    /\ p_value_fn = [draws |-> 1, table |-> [r \in RngStates |-> 0]]
    /\ trials = 1
    /\ alpha = 1
    /\ seed = 0
    /\ rng = 0
    /\ rejections = 0
    /\ iter = 0
    /\ calls = 0
    /\ log = <<>>
    /\ result = None
    /\ error = ""
    /\ remembered = None

InitSweep ==
    /\ sw_pc = "idle"
    /\ sample_sizes = <<>>
    /\ seed_base = 0
    /\ sw_trials = 1
    /\ sw_alpha = 1
    /\ degenerate = {}
    /\ rows = <<>>
    /\ seeds = <<>>
    /\ fieldnames = <<>>
    /\ parent_dir = FALSE
    /\ file = None
    /\ sw_error = ""

InitWilson ==
    /\ wi_pc = "idle"
    /\ successes = 0
    /\ wi_trials = 1
    /\ confidence = F0_5
    /\ z = None /\ wi_n = None /\ phat = None
    /\ denom = None /\ center = None /\ half_width = None
    /\ cdf = None
    /\ interval = None
    /\ wi_error = ""

Init == InitRunner /\ InitSweep /\ InitWilson

\* One invocation, with any callable and any trials, and the report's read
\* of the result.  (An invocation starts from the same locals whatever ran
\* before it: SpecDet below is about invocations that follow one another.)
FirstInvoke ==
    /\ pc = "idle"
    /\ \E fn \in PValueFns, t \in (-1)..MaxTrials, a \in Alphas, s \in 0..MaxSeed :
          Invoke(fn, t, a, s)

Next ==
    \/ FirstInvoke
    \/ LoopBody
    \/ Return
    \/ ReadSuccesses

Spec == Init /\ [][Next]_vars

\* Invocations that return, and an observer that remembers one of them
NextDet ==
    \/ \E fn \in TotalFns, t \in 1..MaxTrials, a \in Alphas, s \in 0..MaxSeed :
          Invoke(fn, t, a, s)
    \/ LoopBody
    \/ Return
    \/ Remember

SpecDet == Init /\ [][NextDet]_vars

\* The sweeps the model runs: every sequence of at most MaxSizes sample
\* sizes, and one of LongSweep sizes.
RECURSIVE SeqsUpTo(_, _)
SeqsUpTo(S, n) ==
    IF n = 0 THEN {<<>>}
    ELSE LET shorter == SeqsUpTo(S, n - 1)
         IN shorter \cup {Append(q, x) : q \in shorter, x \in S}

ShortSweeps == SeqsUpTo(1..MaxSize, MaxSizes)
LongSizes == [j \in 1..LongSweep |-> 1]

\* a sweep starts with no file at output_path, or with one left there
InitSweepSpec ==
    /\ InitRunner
    /\ sw_pc = "idle"
    /\ sample_sizes = <<>>
    /\ seed_base = 0
    /\ sw_trials = 1
    /\ sw_alpha = 1
    /\ degenerate = {}
    /\ rows = <<>>
    /\ seeds = <<>>
    /\ fieldnames = <<>>
    /\ parent_dir \in BOOLEAN
    /\ file \in {None, OldFile}
    /\ file # None => parent_dir
    /\ sw_error = ""
    /\ InitWilson

\* a sweep over a short sequence, with any trials and any set of sample sizes
\* the test oracle fails on
ShortSweep ==
    /\ sw_pc = "idle"
    /\ \E t \in (-1)..MaxTrials, a \in Alphas, sizes \in ShortSweeps,
          sb \in 0..MaxSeedBase, deg \in SUBSET (1..MaxSize) :
          SweepCall(t, a, sizes, sb, deg)

\* a sweep over LongSweep sample sizes
LongSweepCall ==
    /\ sw_pc = "idle"
    /\ \E sb \in 0..MaxSeedBase : SweepCall(1, 1, LongSizes, sb, {})

NextSweep ==
    \/ ShortSweep
    \/ LongSweepCall
    \/ SweepSimulate
    \/ SweepOpen
    \/ SweepWrite

SpecSweep == InitSweepSpec /\ [][NextSweep]_vars

\* The confidence levels wilson_interval is called with: 0.5, 0.8, 0.9 and
\* 0.95 (for which 0.5 + confidence / 2.0 is in the central region of
\* _normal_inverse_cdf), and 0.0, 1.0, -0.5 and 1.5.
Confidences ==
    {Dec(0, <<5>>, -1), Dec(0, <<8>>, -1), Dec(0, <<9>>, -1), Dec(0, <<95>>, -2),
     F0_0, F1_0, Dec(1, <<5>>, -1), Dec(0, <<15>>, -1)}

NextWilson ==
    \/ \E succ \in (-1)..(MaxWilsonTrials + 1), t \in (-1)..MaxWilsonTrials,
          c \in Confidences : WilsonCall(succ, t, c)
    \/ WilsonZ
    \/ CdfCentral
    \/ CdfNum
    \/ CdfDen
    \/ CdfReturn
    \/ WilsonPhat
    \/ WilsonDenom
    \/ WilsonCenter
    \/ WilsonHalfWidth
    \/ WilsonReturn

SpecWilson == Init /\ [][NextWilson]_vars

-----------------------------------------------------------------------------
(* Claims about the Trial Runner *)

\* the number of p-values of a log strictly below a
CountBelow(l, a) == Cardinality({k \in 1..Len(l) : l[k] \in PValues /\ l[k] < a})

\* C1: for trials > 0, a returned invocation has called the per-trial function
\* exactly `trials` times and its rejection_rate is (number of trials whose
\* p-value is strictly below alpha) / trials; a p-value equal to alpha is not
\* counted.
C1_RejectionRate ==
    (pc = "returned" /\ trials > 0) =>
        /\ calls = trials
        /\ Len(log) = trials
        /\ result.rejection_rate = TrueDiv(CountBelow(log, alpha), trials)

\* a returned run that saw a p-value equal to alpha and one below it
C1_Witness ==
    /\ pc = "returned"
    /\ trials >= 2
    /\ \E k \in 1..Len(log) : log[k] = alpha
    /\ \E k \in 1..Len(log) : log[k] < alpha

\* C2: an invocation with trials <= 0 fails with an invalid-argument error
\* (ValueError) and never returns a SimulationResult.
C2_NonPositiveTrialsFail ==
    (trials <= 0 /\ pc \in {"returned", "raised"}) =>
        /\ pc = "raised"
        /\ error = "ValueError"
        /\ result = None

\* C3: every returned SimulationResult carries an integer field successes with
\* 0 <= successes <= trials and rejection_rate = successes / trials, so the
\* report can read result.successes.
C3_ResultCarriesSuccesses ==
    /\ pc = "returned" =>
          /\ "successes" \in DOMAIN result
          /\ result.successes \in 0..trials
          /\ result.rejection_rate = TrueDiv(result.successes, trials)
    /\ error # "AttributeError"

\* C9: two invocations with identical parameters and identical seed give the
\* same rejection_rate, whatever other invocations ran before or between.
C9_Deterministic ==
    (/\ pc = "returned"
     /\ remembered # None
     /\ SameInvocation(remembered, p_value_fn, trials, alpha, seed)) =>
        result.rejection_rate = remembered.rejection_rate

\* the remembered invocation was run again after a different one ran between
C9_Witness ==
    /\ pc = "returned"
    /\ remembered # None
    /\ remembered.others
    /\ SameInvocation(remembered, p_value_fn, trials, alpha, seed)
    /\ remembered.rejection_rate \notin {<<0, 1>>, <<1, 1>>}

\* C10: if the per-trial computation raises at a trial, the run aborts at
\* once: the error leaves _run_trials, the trial is not retried, no later
\* trial runs and no SimulationResult is returned.
C10_ErrorAborts ==
    \A k \in 1..Len(log) :
        log[k] = Raise =>
            /\ pc = "raised"
            /\ error = "OracleError"
            /\ k = Len(log)
            /\ calls = k
            /\ iter = k - 1
            /\ result = None

\* the callable raised at the second trial, after one trial that completed
C10_Witness ==
    /\ pc = "raised"
    /\ error = "OracleError"
    /\ calls = 2
    /\ trials > 2 \/ trials = 2
    /\ log[2] = Raise

-----------------------------------------------------------------------------
(* Claims about the sweep *)

\* C4: a sweep over an empty sequence of sample sizes fails with an explicit
\* invalid-argument error (ValueError) and creates no empty or malformed
\* output file.
C4_EmptySweepRejected ==
    (sample_sizes = <<>> /\ sw_pc \in {"raised", "done"}) =>
        /\ sw_pc = "raised"
        /\ sw_error = "ValueError"
        /\ file \in {None, OldFile}

\* C5: within one sweep the seeds given to the Trial Runner are pairwise
\* distinct over all its invocations, for any seed_base and any sequence of
\* sample sizes (as many distinct seeds as invocations).
C5_SeedsDistinct ==
    Cardinality({seeds[c] : c \in 1..Len(seeds)}) = Len(seeds)

\* the column names of the sweep output, in order
Columns == <<"n_per_group", "alpha", "trials", "type1_mean", "power_mean",
             "type1_conversion", "power_conversion", "type1_ratio",
             "power_ratio">>

\* C6: after a sweep over a non-empty sequence completes, the output is one
\* header line with the nine columns in order, then exactly one row per
\* requested sample size, the k-th row holding the k-th sample size.
C6_OneRowPerSize ==
    (sw_pc = "done" /\ sample_sizes # <<>>) =>
        /\ file # None
        /\ file.header = Columns
        /\ Len(file.lines) = Len(sample_sizes)
        /\ \A k \in 1..Len(sample_sizes) :
              /\ Len(file.lines[k]) = Len(Columns)
              /\ file.lines[k][1] = sample_sizes[k]

\* a completed sweep over sizes given twice and out of order
C6_Witness ==
    /\ sw_pc = "done"
    /\ Len(sample_sizes) >= 3
    /\ sample_sizes[1] = sample_sizes[2]
    /\ sample_sizes[2] > sample_sizes[3]

\* every simulate_* call of the sweep has returned and every row is appended
AllInvocationsReturned ==
    /\ Len(seeds) = NCells * Len(sample_sizes)
    /\ Len(rows) = Len(sample_sizes)

\* C11: run_sweep_to_csv opens the output file only after all six Trial
\* Runner invocations of every sample size have returned. So no step changes
\* the file before that, a sweep that fails leaves the file at output_path as
\* it found it (not created, or an existing file with its contents), and a
\* file that the sweep has touched belongs to a sweep whose invocations all
\* returned: it never holds a header with only some of the rows because a
\* simulation failed.
C11_FileOpenedAfterAllInvocations ==
    /\ [][file' # file =>
            /\ sw_pc \in {"open", "write"}
            /\ AllInvocationsReturned]_vars
    /\ [](sw_pc \in {"idle", "simulate", "open", "raised"} =>
            file \in {None, OldFile})
    /\ [](file \notin {None, OldFile} =>
            /\ sw_pc \in {"write", "done"}
            /\ AllInvocationsReturned)
    /\ [](sw_pc = "done" => Len(file.lines) = Len(sample_sizes))

\* a sweep that found a file at output_path, appended its first row and then
\* failed in a later Trial Runner invocation: the file is the one it found
C11_Witness ==
    /\ sw_pc = "raised"
    /\ sw_error = "OracleError"
    /\ Len(rows) >= 1
    /\ Len(rows) < Len(sample_sizes)
    /\ file = OldFile

-----------------------------------------------------------------------------
(* Claims about wilson_interval *)

\* C7: for trials > 0, successes in [0, trials] and confidence in (0, 1),
\* wilson_interval returns a ProportionInterval with
\* 0 <= low <= estimate <= high <= 1, where estimate = successes / trials.
C7_IntervalOrdered ==
    /\ wi_pc = "returned" =>
          /\ FLe(F0_0, interval.low)
          /\ FLe(interval.low, interval.estimate)
          /\ FLe(interval.estimate, interval.high)
          /\ FLe(interval.high, F1_0)
          /\ FEq(interval.estimate,
                 FDiv(FFromInt(successes), FFromInt(wi_trials)))
    /\ wi_pc = "raised" =>
          \/ wi_trials <= 0
          \/ successes < 0 \/ successes > wi_trials
          \/ FLe(confidence, F0_0) \/ FLe(F1_0, confidence)

\* C8: wilson_interval fails with a ValueError and returns no interval
\* whenever trials <= 0, or successes < 0 or successes > trials, or
\* confidence <= 0 or confidence >= 1; each of the three preconditions has
\* its own failure, and an interval is returned only when all three hold.
C8_PreconditionsChecked ==
    LET badTrials == wi_trials <= 0
        badSuccesses == successes < 0 \/ successes > wi_trials
        badConfidence == FLe(confidence, F0_0) \/ FLe(F1_0, confidence)
    IN wi_pc # "idle" =>
          /\ (badTrials \/ badSuccesses \/ badConfidence) =>
                (wi_pc = "raised" /\ interval = None)
          /\ badTrials => wi_error = TrialsMsg
          /\ (~badTrials /\ badSuccesses) => wi_error = SuccessesMsg
          /\ (~badTrials /\ ~badSuccesses /\ badConfidence) =>
                wi_error = ConfidenceMsg
          /\ Cardinality({TrialsMsg, SuccessesMsg, ConfidenceMsg}) = 3
          /\ interval # None =>
                (wi_pc = "returned" /\ ~badTrials /\ ~badSuccesses
                 /\ ~badConfidence)

\* a call with confidence = 1.0 and nothing else wrong has failed
C8_Witness ==
    /\ wi_pc = "raised"
    /\ wi_trials > 0
    /\ successes \in 0..wi_trials
    /\ FEq(confidence, F1_0)
    /\ wi_error = ConfidenceMsg

====
